---- MODULE Spec2Model ----
(***************************************************************************)
(* Verification model of tneely/bio-rs: the two-state HMM coursework       *)
(* programs hw8 (Baum-Welch training) and hw9 (Viterbi decoding), the      *)
(* copy-number segmentation scan of hw6 and hw7, the path scores of hw4    *)
(* and hw5, and the puzzles aoc day5 and day7.                             *)
(*                                                                         *)
(* Numbers.  The programs compute with f64 log-probabilities.  A finite    *)
(* f64 is modelled in fixed point, as an integer number of 1/100 nat       *)
(* (0.1 is 10, -1.0 is -100).  Finite values beyond FMax in magnitude      *)
(* overflow to the infinities, as f64 values beyond f64::MAX do; the       *)
(* infinities and NaN are the integers PosInf, NegInf and NaN, outside     *)
(* the finite range, and every arithmetic operator below treats them by    *)
(* the IEEE-754 rules.                                                     *)
(*                                                                         *)
(* Indices are 0-based as in the source: a Vec or array of length n is a   *)
(* function with domain 0..n-1.                                            *)
(***************************************************************************)
EXTENDS Integers, Sequences, FiniteSets, TLC

VARIABLES
    \* hw8::run
    sequence,           \* the loaded FASTA sequence (load_fasta's result)
    pc8,                \* position of hw8::run
    iterations, prev_ll, current_ll,
    start_probs, transition_probs, emission_probs,
    forward, backward,  \* the two tables of the current iteration
    fb, fwb,            \* the two normalisers of the current iteration
    \* hw9::run
    states,             \* the two StateProbability tables (load_freqs)
    aln, start, end,    \* load_alignment's result
    pc9,                \* position of hw9::run
    score_tracker, state_tracker,
    state_segments, best_path,
    state_histogram, segment_histogram,  \* the two printed histograms
    \* hw7: parse_sequence and ReadHistogram::simulate_new
    routine,            \* which of the two scans runs
    lines,              \* the (pos, cnt) lines of the file, or the drawn counts
    d_score, scoring_scheme,
    pc7,                \* position of the scan
    line_no,            \* index of the next line (simulate_new: i)
    cum, max, p_start, p_end,
    c_n, t_n, m_n,      \* the counters c_0..c_3, t_0..t_3, m_0..m_3
    rh,                 \* the ReadHistogram under construction
    \* hw8::sum_log_prob called on its own
    log_a, log_b,       \* the two arguments
    log_sum,            \* sum_log_prob(a, b)
    log_sum_swapped,    \* sum_log_prob(b, a)
    pcL,
    \* aoc::day5::run
    stacks,             \* the stacks of crates, each from bottom to top
    loaded,             \* the crates of the loaded stacks, counted by label
    action,             \* the numbers of the last "move n from a to b" line
    pc5,
    \* aoc::day7::run
    dirs,               \* the Directory nodes in the order they were made; the root is node 1
    cwd,                \* the node the fold carries as current directory
    term_line,          \* the terminal line read last
    lines_read,         \* how many terminal lines were read
    total_size,         \* update_size of the root
    pcD7,
    \* hw5::run (WeightedDirectedAcyclicGraph::get_path_scores)
    dag5,               \* the edge weights, by (node, child)
    scores5,            \* scores: the score per node, NoScore where the map has no key
    queue5,             \* queue
    max_score5,         \* the score run prints
    pcH5,
    \* hw4::run (print_best_path_nodes)
    dag4,               \* the edge weights, by (node, child)
    scores4,            \* scores: the keys that have a TraceScore, and their score
    queue4,             \* queue
    end_score4,         \* the score print_best_path_nodes prints
    pcH4

vars8 == <<sequence, pc8, iterations, prev_ll, current_ll, start_probs,
           transition_probs, emission_probs, forward, backward, fb, fwb>>

vars9 == <<states, aln, start, end, pc9, score_tracker, state_tracker,
           state_segments, best_path, state_histogram, segment_histogram>>

vars7 == <<routine, lines, d_score, scoring_scheme, pc7, line_no, cum, max,
           p_start, p_end, c_n, t_n, m_n, rh>>

varsL == <<log_a, log_b, log_sum, log_sum_swapped, pcL>>

vars5 == <<stacks, loaded, action, pc5>>

varsD7 == <<dirs, cwd, term_line, lines_read, total_size, pcD7>>

varsH5 == <<dag5, scores5, queue5, max_score5, pcH5>>

varsH4 == <<dag4, scores4, queue4, end_score4, pcH4>>

vars == <<vars8, vars9, vars7, varsL, vars5, varsD7, varsH5, varsH4>>

\* the state of the programs that a run of one program leaves alone
others8 == <<vars9, vars7, varsL, vars5, varsD7, varsH5, varsH4>>

others9 == <<vars8, vars7, varsL, vars5, varsD7, varsH5, varsH4>>

others7 == <<vars8, vars9, varsL, vars5, varsD7, varsH5, varsH4>>

othersL == <<vars8, vars9, vars7, vars5, varsD7, varsH5, varsH4>>

others5 == <<vars8, vars9, vars7, varsL, varsD7, varsH5, varsH4>>

othersD7 == <<vars8, vars9, vars7, varsL, vars5, varsH5, varsH4>>

othersH5 == <<vars8, vars9, vars7, varsL, vars5, varsD7, varsH4>>

othersH4 == <<vars8, vars9, vars7, varsL, vars5, varsD7, varsH5>>

-----------------------------------------------------------------------------
(* Bounds of the model *)

\* largest finite magnitude of the modelled f64, in 1/100 nat
FMax == 1000000
\* longest input sequence
MaxLen == 3
\* cap on the iterations of the hw8 loop explored
MaxIter == 12

-----------------------------------------------------------------------------
(* f64 arithmetic *)

PosInf == FMax + 1
NegInf == 0 - (FMax + 1)
NaN == FMax + 2

f64_is_nan(a) == a = NaN

f64_is_finite(a) == a >= 0 - FMax /\ a <= FMax

\* a finite result, or the infinity it overflows to
f64_round(x) ==
    IF x > FMax THEN PosInf ELSE IF x < 0 - FMax THEN NegInf ELSE x

f64_neg(a) == IF a = NaN THEN NaN ELSE 0 - a

f64_add(a, b) ==
    IF a = NaN \/ b = NaN THEN NaN
    ELSE IF a = PosInf THEN (IF b = NegInf THEN NaN ELSE PosInf)
    ELSE IF a = NegInf THEN (IF b = PosInf THEN NaN ELSE NegInf)
    ELSE IF b = PosInf \/ b = NegInf THEN b
    ELSE f64_round(a + b)

f64_sub(a, b) == f64_add(a, f64_neg(b))

\* comparisons with NaN are false
f64_gt(a, b) == a # NaN /\ b # NaN /\ a > b

f64_lt(a, b) == a # NaN /\ b # NaN /\ a < b

f64_abs(a) == IF a = NaN THEN NaN ELSE IF a < 0 THEN 0 - a ELSE a

\* f64::ln of the probability literals of the source, given in 1/1000
ln(permille) ==
    CASE permille = 0 -> NegInf
      [] permille = 1 -> -691
      [] permille = 4 -> -552
      [] permille = 10 -> -461
      [] permille = 50 -> -300
      [] permille = 100 -> -230
      [] permille = 150 -> -190
      [] permille = 200 -> -161
      [] permille = 300 -> -120
      [] permille = 350 -> -105
      [] permille = 400 -> -92
      [] permille = 500 -> -69
      [] permille = 600 -> -51
      [] permille = 700 -> -36
      [] permille = 800 -> -22
      [] permille = 900 -> -11
      [] permille = 950 -> -5
      [] permille = 990 -> -1
      [] permille = 996 -> 0
      [] permille = 999 -> 0
      [] permille = 1000 -> 0

\* x.exp().ln_1p() for finite x <= 0 is the number of these break points
\* that x has reached: ln(1 + e^x) rounded to 1/100 nat, from 0 up to ln 2
Ln1pExpBreaks ==
    <<-529, -419, -367, -333, -307, -287, -270, -255, -242, -230,
      -220, -210, -201, -193, -185, -178, -171, -165, -159, -153,
      -148, -142, -137, -132, -128, -123, -119, -115, -110, -106,
      -103, -99, -95, -92, -88, -85, -81, -78, -75, -72,
      -69, -66, -63, -60, -57, -55, -52, -49, -47, -44,
      -42, -39, -37, -34, -32, -29, -27, -25, -22, -20,
      -18, -16, -14, -11, -9, -7, -5, -3, -1>>

exp_ln_1p(x) ==
    IF x = NaN THEN NaN
    ELSE IF x = PosInf THEN PosInf
    ELSE IF x = NegInf THEN 0
    ELSE IF x <= 0
         THEN Cardinality({k \in DOMAIN Ln1pExpBreaks : x >= Ln1pExpBreaks[k]})
         ELSE f64_add(x, Cardinality({k \in DOMAIN Ln1pExpBreaks :
                                        0 - x >= Ln1pExpBreaks[k]}))

-----------------------------------------------------------------------------
(* hw8: log-space addition *)

\* -709.089565713, the cutoff of logp1exp: an integer x is below it
\* exactly when x < -70908
LogCutoff == -70908

logp1exp(x) == IF f64_lt(x, LogCutoff) THEN 0 ELSE exp_ln_1p(x)

\* sum_log_prob with "b - a" for "a - b" in the else branch
sum_log_prob_same_difference(a, b) ==
    IF f64_gt(a, b)
    THEN f64_add(a, logp1exp(f64_sub(b, a)))
    ELSE f64_add(b, logp1exp(f64_sub(b, a)))

sum_log_prob(a, b) ==
    IF f64_gt(a, b)
    THEN f64_add(a, logp1exp(f64_sub(b, a)))
    ELSE f64_add(b, logp1exp(f64_sub(a, b)))

-----------------------------------------------------------------------------
(* hw8: the tables *)

States == 0..1

\* the keys of the two emission HashMaps
Bases == {"A", "C", "G", "T"}

\* the characters a FASTA file may hold: N has no emission entry
Symbols == Bases \cup {"N"}

len(s) == Cardinality(DOMAIN s)

\* sequence.chars().rev()
rev(s) == [t \in DOMAIN s |-> s[len(s) - 1 - t]]

\* whether compute_scores panics: next().unwrap() on an empty iterator, or
\* the HashMap index of a character that is no key
compute_scores_panics(chars) ==
    len(chars) = 0 \/ \E t \in DOMAIN chars : chars[t] \notin Bases

\* compute_scores with the transition table read transposed
compute_scores_transposed(chars, em, sp, tr) ==
    LET scores[t \in DOMAIN chars] ==
            IF t = 0
            THEN [i \in States |-> f64_add(sp[i], em[i][chars[0]])]
            ELSE LET c == chars[t]
                     prev == scores[t - 1]
                 IN  [i \in States |->
                        LET first == f64_add(f64_add(prev[0], em[i][c]), tr[i][0])
                        IN  sum_log_prob(first,
                              f64_add(f64_add(prev[1], em[i][c]), tr[i][1]))]
    IN  [t \in DOMAIN chars |-> scores[t]]

compute_scores(chars, em, sp, tr) ==
    LET scores[t \in DOMAIN chars] ==
            IF t = 0
            THEN [i \in States |-> f64_add(sp[i], em[i][chars[0]])]
            ELSE LET c == chars[t]
                     prev == scores[t - 1]
                 IN  [i \in States |->
                        LET first == f64_add(f64_add(prev[0], em[i][c]), tr[0][i])
                        IN  sum_log_prob(first,
                              f64_add(f64_add(prev[1], em[i][c]), tr[1][i]))]
    IN  [t \in DOMAIN chars |-> scores[t]]

-----------------------------------------------------------------------------
(* hw8: one re-estimation (the loop body after the two tables) *)

\* fb[s_i] after the pass t of the first loop
RECURSIVE fb_loop(_, _, _, _, _, _)
fb_loop(f, b, n, ll, s_i, t) ==
    LET term == f64_sub(f64_add(f[t][s_i], b[n - t - 1][s_i]), ll)
    IN  IF t = 0 THEN term
        ELSE sum_log_prob(fb_loop(f, b, n, ll, s_i, t - 1), term)

compute_fb(f, b, n, ll) == [s_i \in States |-> fb_loop(f, b, n, ll, s_i, n - 1)]

\* fwb[s_i] after the inner pass s_j of the pass t: k = 2 t + s_j
RECURSIVE fwb_loop(_, _, _, _, _, _, _)
fwb_loop(f, b, tr, n, ll, s_i, k) ==
    LET t == k \div 2
        s_j == k % 2
        term == f64_sub(f64_add(f64_add(f[t][s_i], b[n - t - 2][s_j]),
                                tr[s_i][s_j]), ll)
    IN  IF t = 0 THEN term
        ELSE sum_log_prob(fwb_loop(f, b, tr, n, ll, s_i, k - 1), term)

compute_fwb(f, b, tr, n, ll) ==
    [s_i \in States |->
        IF n - 1 = 0 THEN 0
        ELSE fwb_loop(f, b, tr, n, ll, s_i, 2 * (n - 1) - 1)]

new_start_probs(f, b, n, ll) ==
    [s \in States |-> f64_sub(f64_add(f[0][s], b[n - 2][s]), ll)]

\* emission_probs[s_i][c] after the pass t of the second loop, from the
\* zeroed table (t = -1)
RECURSIVE emission_loop(_, _, _, _, _, _, _)
emission_loop(f, b, seq, n, s_i, c, t) ==
    IF t < 0 THEN 0
    ELSE LET old == emission_loop(f, b, seq, n, s_i, c, t - 1)
         IN  IF seq[t] = c
             THEN sum_log_prob(old, f64_add(f[t][s_i], b[n - t - 1][s_i]))
             ELSE old

\* new_t[s_i][s_j] after the pass t of the second loop
RECURSIVE new_t_loop(_, _, _, _, _, _, _)
new_t_loop(f, b, tr, n, s_i, s_j, t) ==
    IF t < 0 THEN 0
    ELSE sum_log_prob(new_t_loop(f, b, tr, n, s_i, s_j, t - 1),
                      f64_add(f64_add(f[t][s_j], b[n - t - 2][s_i]), tr[s_i][s_j]))

new_transition_probs(f, b, tr, n, ll, w) ==
    [s_i \in States |-> [s_j \in States |->
        f64_sub(new_t_loop(f, b, tr, n, s_i, s_j, n - 2), f64_sub(w[s_i], ll))]]

new_emission_probs(f, b, seq, n, ll, g) ==
    [s_i \in States |-> [c \in Bases |->
        f64_sub(emission_loop(f, b, seq, n, s_i, c, n - 1), f64_sub(g[s_i], ll))]]

-----------------------------------------------------------------------------
(* hw8::run *)

\* the probability literals of hw8::run
CurrentLLInit == 0

\* a run whose two placeholders are equal
PrevLLInit_equal == CurrentLLInit

PrevLLInit == -100

ConvergenceThreshold == 10

InitStartProbs == [s \in States |-> IF s = 0 THEN ln(996) ELSE ln(4)]

InitTransitionProbs ==
    [s \in States |-> [d \in States |->
        IF s = 0 THEN (IF d = 0 THEN ln(999) ELSE ln(1))
                 ELSE (IF d = 0 THEN ln(10) ELSE ln(990))]]

InitEmissionProbs ==
    [s \in States |-> [c \in Bases |->
        IF s = 0 THEN (IF c \in {"A", "T"} THEN ln(300) ELSE ln(200))
                 ELSE (IF c \in {"A", "T"} THEN ln(150) ELSE ln(350))]]

\* while (prev_ll - current_ll).abs() > 0.1
LoopGuard(prev, cur) == f64_gt(f64_abs(f64_sub(prev, cur)), ConvergenceThreshold)

Inputs == UNION {[0..(k - 1) -> Symbols] : k \in 0..MaxLen}

Init8 ==
    /\ sequence \in Inputs
    /\ pc8 = "loop"
    /\ iterations = 0
    /\ prev_ll = PrevLLInit
    /\ current_ll = CurrentLLInit
    /\ start_probs = InitStartProbs
    /\ transition_probs = InitTransitionProbs
    /\ emission_probs = InitEmissionProbs
    /\ forward = <<>>
    /\ backward = <<>>
    /\ fb = [s \in States |-> 0]
    /\ fwb = [s \in States |-> 0]

\* lines 19-33: the loop test, the counters, the two tables and current_ll
ComputeTables ==
    /\ pc8 = "loop"
    /\ LoopGuard(prev_ll, current_ll)
    /\ iterations < MaxIter
    /\ iterations' = iterations + 1
    /\ prev_ll' = current_ll
    /\ IF compute_scores_panics(sequence)
       THEN /\ pc8' = "panic"
            /\ UNCHANGED <<current_ll, forward, backward>>
       ELSE LET f == compute_scores(sequence, emission_probs, start_probs,
                                    transition_probs)
                last == f[len(sequence) - 1]
            IN  /\ forward' = f
                /\ current_ll' = sum_log_prob(last[0], last[1])
                /\ backward' = compute_scores(rev(sequence), emission_probs,
                                              start_probs, transition_probs)
                /\ pc8' = "estimate"
    /\ UNCHANGED <<sequence, start_probs, transition_probs, emission_probs, fb, fwb>>
    /\ UNCHANGED others8

\* lines 35-102: the new start, transition and emission tables.  For a
\* sequence of one character backward[n - 2] subtracts below zero in usize:
\* the run panics.
Reestimate ==
    /\ pc8 = "estimate"
    /\ LET n == len(sequence)
           g == compute_fb(forward, backward, n, current_ll)
           w == compute_fwb(forward, backward, transition_probs, n, current_ll)
       IN  IF n < 2
           THEN /\ pc8' = "panic"
                /\ fb' = g
                /\ fwb' = w
                /\ UNCHANGED <<start_probs, transition_probs, emission_probs>>
           ELSE /\ pc8' = "loop"
                /\ fb' = g
                /\ fwb' = w
                /\ start_probs' = new_start_probs(forward, backward, n, current_ll)
                /\ transition_probs' =
                       new_transition_probs(forward, backward, transition_probs,
                                            n, current_ll, w)
                /\ emission_probs' =
                       new_emission_probs(forward, backward, sequence, n,
                                          current_ll, g)
    /\ UNCHANGED <<sequence, iterations, prev_ll, current_ll, forward, backward>>
    /\ UNCHANGED others8

\* lines 105-123: the loop test fails and the tables are printed
Report ==
    /\ pc8 = "loop"
    /\ ~LoopGuard(prev_ll, current_ll)
    /\ pc8' = "done"
    /\ UNCHANGED <<sequence, iterations, prev_ll, current_ll, start_probs,
                   transition_probs, emission_probs, forward, backward, fb, fwb>>
    /\ UNCHANGED others8

Next8 == ComputeTables \/ Reestimate \/ Report

-----------------------------------------------------------------------------
(* hw9::run *)

\* longest alignment, in columns
MaxAln == 3

\* the alignment columns a file may hold: "A-A" is in no frequency file
Columns == {"AAA", "CCC", "A-A"}

\* the columns in which the three sequences hold the same base
BaseColumns == {"AAA", "TTT", "GGG", "CCC"}

\* the counts a frequency file may hold (load_freqs)
CountTables ==
    { [c \in {"AAA", "CCC"} |-> IF c = "AAA" THEN 99 ELSE 1],
      [c \in {"AAA", "CCC"} |-> IF c = "AAA" THEN 1 ELSE 99],
      [c \in {"AAA", "CCC"} |-> 5],
      [c \in {"AAA", "CCC"} |-> IF c = "AAA" THEN 10 ELSE 0],
      [c \in BaseColumns |-> IF c \in {"AAA", "TTT"} THEN 40 ELSE 10],
      [c \in BaseColumns |-> IF c \in {"AAA", "TTT"} THEN 10 ELSE 40],
      [c \in BaseColumns |-> IF c \in {"AAA", "TTT"} THEN 30 ELSE 20],
      [c \in BaseColumns |-> IF c \in {"AAA", "TTT"} THEN 15 ELSE 35] }

\* the first coordinate an alignment file may name
Starts == {0, 7}

RECURSIVE total_count(_, _)
total_count(counts, keys) ==
    IF keys = {} THEN 0
    ELSE LET k == CHOOSE x \in keys : TRUE
         IN  counts[k] + total_count(counts, keys \ {k})

\* StateProbability::from_counts: (c / total).ln()
from_counts(emission_counts) ==
    LET total == total_count(emission_counts, DOMAIN emission_counts)
    IN  [em \in DOMAIN emission_counts |->
            ln((1000 * emission_counts[em]) \div total)]

\* StateProbability::get_prob panics on an emission that is no key
get_prob_panics(state, em) == em \notin DOMAIN state

get_prob(state, em) == state[em]

hw9_start_probs == [s \in States |-> IF s = 0 THEN ln(950) ELSE ln(50)]

hw9_transition_probs ==
    [s \in States |-> [d \in States |->
        IF s = 0 THEN (IF d = 0 THEN ln(950) ELSE ln(50))
                 ELSE (IF d = 0 THEN ln(100) ELSE ln(900))]]

\* Option<usize>::None
NoState == 0 - 1

\* scored_columns with "p0 >= p1" for "p0 > p1"
scored_columns_ge(st, al) ==
    LET col[i \in DOMAIN al] ==
            IF i = 0
            THEN [s \in States |->
                    [score |-> f64_add(hw9_start_probs[s], get_prob(st[s], al[i])),
                     from |-> 0]]
            ELSE [s \in States |->
                    LET p0 == f64_add(f64_add(col[i - 1][0].score,
                                              hw9_transition_probs[0][s]),
                                      get_prob(st[s], al[i]))
                        p1 == f64_add(f64_add(col[i - 1][1].score,
                                              hw9_transition_probs[1][s]),
                                      get_prob(st[s], al[i]))
                    IN  IF ~f64_lt(p0, p1)
                        THEN [score |-> p0, from |-> 0]
                        ELSE [score |-> p1, from |-> 1]]
    IN  [i \in DOMAIN al |-> col[i]]

\* lines 21-39: for every column i and state s, the score and the
\* predecessor chosen for it
scored_columns(st, al) ==
    LET col[i \in DOMAIN al] ==
            IF i = 0
            THEN [s \in States |->
                    [score |-> f64_add(hw9_start_probs[s], get_prob(st[s], al[i])),
                     from |-> 0]]
            ELSE [s \in States |->
                    LET p0 == f64_add(f64_add(col[i - 1][0].score,
                                              hw9_transition_probs[0][s]),
                                      get_prob(st[s], al[i]))
                        p1 == f64_add(f64_add(col[i - 1][1].score,
                                              hw9_transition_probs[1][s]),
                                      get_prob(st[s], al[i]))
                    IN  IF f64_gt(p0, p1)
                        THEN [score |-> p0, from |-> 0]
                        ELSE [score |-> p1, from |-> 1]]
    IN  [i \in DOMAIN al |-> col[i]]

\* backtrack_step with "seg_end = current_pos" for "seg_end = current_pos - 1"
backtrack_step_overlap(bt, i) ==
    IF bt.current_state # NoState
    THEN LET cs == bt.current_state
             next_state == state_tracker[cs][i]
             current_pos == start + i
             closes == cs # next_state \/ i = 0
         IN  [best_path |-> [bt.best_path EXCEPT ![i] = cs],
              state_segments |->
                  IF closes
                  THEN [bt.state_segments EXCEPT
                           ![cs] = Append(@, <<current_pos, bt.seg_end>>)]
                  ELSE bt.state_segments,
              seg_end |-> IF closes THEN current_pos ELSE bt.seg_end,
              current_state |-> next_state]
    ELSE LET p0 == score_tracker[0][i]
             p1 == score_tracker[1][i]
         IN  [best_path |-> bt.best_path,
              state_segments |-> bt.state_segments,
              seg_end |-> end,
              current_state |-> IF f64_gt(p0, p1) THEN 0 ELSE 1]

\* lines 46-62: one pass of the backtracking loop, at column i
backtrack_step(bt, i) ==
    IF bt.current_state # NoState
    THEN LET cs == bt.current_state
             next_state == state_tracker[cs][i]
             current_pos == start + i
             closes == cs # next_state \/ i = 0
         IN  [best_path |-> [bt.best_path EXCEPT ![i] = cs],
              state_segments |->
                  IF closes
                  THEN [bt.state_segments EXCEPT
                           ![cs] = Append(@, <<current_pos, bt.seg_end>>)]
                  ELSE bt.state_segments,
              seg_end |-> IF closes THEN current_pos - 1 ELSE bt.seg_end,
              current_state |-> next_state]
    ELSE LET p0 == score_tracker[0][i]
             p1 == score_tracker[1][i]
         IN  [best_path |-> bt.best_path,
              state_segments |-> bt.state_segments,
              seg_end |-> end,
              current_state |-> IF f64_gt(p0, p1) THEN 0 ELSE 1]

\* for i in (0..aln.len()).rev()
RECURSIVE backtrack_loop(_, _)
backtrack_loop(bt, i) ==
    IF i < 0 THEN bt ELSE backtrack_loop(backtrack_step(bt, i), i - 1)

\* fold(0, |t, (s, e)| t + e - s)
RECURSIVE histogram_fold(_, _)
histogram_fold(segs, k) ==
    IF k = 0 THEN 0
    ELSE histogram_fold(segs, k - 1) + segs[k][2] - segs[k][1]

\* the alignment whose three sequences are AAAATTTTGGGGCCCC
SixteenColumns ==
    [i \in 0..15 |-> IF i < 4 THEN "AAA" ELSE IF i < 8 THEN "TTT"
                     ELSE IF i < 12 THEN "GGG" ELSE "CCC"]

Alignments == UNION {[0..(k - 1) -> Columns] : k \in 1..MaxAln} \cup {SixteenColumns}

Init9 ==
    /\ \E counts \in [States -> CountTables] :
          states = [s \in States |-> from_counts(counts[s])]
    /\ aln \in Alignments
    /\ start \in Starts
    /\ end = start + len(aln) - 1
    /\ pc9 = "score"
    /\ score_tracker = <<>>
    /\ state_tracker = <<>>
    /\ state_segments = [s \in States |-> <<>>]
    /\ best_path = <<>>
    /\ state_histogram = <<>>
    /\ segment_histogram = <<>>

\* lines 18-39
Score ==
    /\ pc9 = "score"
    /\ IF \E i \in DOMAIN aln : \E s \in States : get_prob_panics(states[s], aln[i])
       THEN /\ pc9' = "panic"
            /\ UNCHANGED <<score_tracker, state_tracker>>
       ELSE LET col == scored_columns(states, aln)
            IN  /\ score_tracker' = [s \in States |-> [i \in DOMAIN aln |-> col[i][s].score]]
                /\ state_tracker' = [s \in States |-> [i \in DOMAIN aln |-> col[i][s].from]]
                /\ pc9' = "backtrack"
    /\ UNCHANGED <<states, aln, start, end, state_segments, best_path,
                   state_histogram, segment_histogram>>
    /\ UNCHANGED others9

\* lines 41-62
Backtrack ==
    /\ pc9 = "backtrack"
    /\ LET bt == backtrack_loop([best_path |-> [i \in DOMAIN aln |-> 0],
                                 state_segments |-> [s \in States |-> <<>>],
                                 seg_end |-> 0,
                                 current_state |-> NoState],
                                len(aln) - 1)
       IN  /\ state_segments' = bt.state_segments
           /\ best_path' = bt.best_path
    /\ pc9' = "print"
    /\ UNCHANGED <<states, aln, start, end, score_tracker, state_tracker,
                   state_histogram, segment_histogram>>
    /\ UNCHANGED others9

\* lines 64-68
PrintHistograms ==
    /\ pc9 = "print"
    /\ state_histogram' =
           [s \in States |-> histogram_fold(state_segments[s], Len(state_segments[s]))]
    /\ segment_histogram' = [s \in States |-> Len(state_segments[s])]
    /\ pc9' = "done"
    /\ UNCHANGED <<states, aln, start, end, score_tracker, state_tracker,
                   state_segments, best_path>>
    /\ UNCHANGED others9

Next9 == Score \/ Backtrack \/ PrintHistograms

-----------------------------------------------------------------------------
(* hw7: parse_sequence and ReadHistogram::simulate_new.  hw6::parse_sequence *)
(* is the same scan with d_score = D_SCORE_1 and the default scores.        *)

\* the f64 scores of the scan are integers of 1/ScoreUnit
ScoreUnit == 10000

\* longest file, in lines
MaxLines == 4

D_SCORE_1 == -20 * ScoreUnit

D_SCORE_2 == -5 * ScoreUnit

\* the fall-off amounts a scan may be called with
DScores == {D_SCORE_1, D_SCORE_2, -4 * ScoreUnit}

\* hw7::run: {0: -0.1077, 1: 0.4772, 2: 1.0622, 3: 1.6748}
default_scores == <<-1077, 4772, 10622, 16748>>

\* the scoring schemes a scan may be called with (get_scoring_scheme's
\* results depend on the data): scores of the read counts 0, 1, 2, >= 3
Schemes ==
    { [k \in 0..3 |-> default_scores[k + 1]],
      [k \in 0..3 |-> <<-5, 2, 3, 4>>[k + 1] * ScoreUnit],
      [k \in 0..3 |-> <<-4, 2, 3, 5>>[k + 1] * ScoreUnit],
      [k \in 0..3 |-> <<-1, 4, 5, 6>>[k + 1] * ScoreUnit] }

\* the read counts of a line
Counts == {0, 1, 3}

\* the position of the first line of a file
FirstPositions == {0, 1}

\* the counts of the seven-line file 1 1 1 0 0 1 1
SevenCounts == <<1, 1, 1, 0, 0, 1, 1>>

CountStreams ==
    UNION {[0..(k - 1) -> Counts] : k \in 0..MaxLines}
        \cup {[i \in 0..6 |-> SevenCounts[i + 1]]}

\* ReadHistogram::new
ReadHistogram_new ==
    [segs |-> <<>>, non_elevated_copies |-> <<>>, elevated_copies |-> <<>>]

\* the match on cnt: 0, 1, 2, or the arm for >= 3
count_bucket(cnt) == IF cnt \in 0..2 THEN cnt ELSE 3

get_read_score(reads, scheme) == IF reads >= 3 THEN scheme[3] ELSE scheme[reads]

\* scan_closes with "cum < max + d_score" for "cum <= max + d_score"
scan_closes_strict(cm, mx, d, is_last) == cm <= 0 \/ cm < mx + d \/ is_last

\* scan_closes without "cum <= 0.0"
scan_closes_no_floor(cm, mx, d, is_last) == cm <= mx + d \/ is_last

\* cum <= 0.0 || cum <= max + d_score || is_last
scan_closes(cm, mx, d, is_last) == cm <= 0 \/ cm <= mx + d \/ is_last

\* max >= -d_score
segment_reported(mx, d) == mx >= 0 - d

\* *rh.elevated_copies.entry(k).or_default() += m_k
add_copies(copies, m) ==
    [k \in 0..3 |-> (IF k \in DOMAIN copies THEN copies[k] ELSE 0) + m[k]]

zero_counters == [k \in 0..3 |-> 0]

Init7 ==
    /\ routine \in {"parse_sequence", "simulate_new"}
    /\ \E counts \in CountStreams : \E first \in FirstPositions :
          /\ routine = "simulate_new" => first = 0
          /\ lines = [i \in DOMAIN counts |-> [pos |-> first + i, cnt |-> counts[i]]]
    /\ d_score \in DScores
    /\ scoring_scheme \in Schemes
    /\ pc7 = "scan"
    /\ line_no = 0
    /\ cum = 0
    /\ max = 0
    /\ p_start = 1
    /\ p_end = 1
    /\ c_n = zero_counters
    /\ t_n = zero_counters
    /\ m_n = zero_counters
    /\ rh = ReadHistogram_new

\* one pass of the loop over the lines (parse_sequence) or over 0..total
\* (simulate_new, which keeps no counters)
ScanLine ==
    /\ pc7 = "scan"
    /\ line_no < len(lines)
    /\ LET pos == lines[line_no].pos
           cnt == lines[line_no].cnt
           is_last == line_no = len(lines) - 1
           counted == routine = "parse_sequence"
           c1 == IF counted THEN [c_n EXCEPT ![count_bucket(cnt)] = @ + 1] ELSE c_n
           cum1 == cum + get_read_score(cnt, scoring_scheme)
           rises == cum1 >= max
           max1 == IF rises THEN cum1 ELSE max
           end1 == IF rises THEN pos ELSE p_end
           m1 == IF rises /\ counted THEN c1 ELSE m_n
       IN  /\ t_n' = IF counted THEN [t_n EXCEPT ![count_bucket(cnt)] = @ + 1] ELSE t_n
           /\ m_n' = m1
           /\ IF scan_closes(cum1, max1, d_score, is_last)
              THEN /\ rh' = IF segment_reported(max1, d_score)
                            THEN [rh EXCEPT
                                     !.segs = Append(@, <<p_start, end1, max1>>),
                                     !.elevated_copies =
                                         IF counted THEN add_copies(@, m1) ELSE @]
                            ELSE rh
                   /\ c_n' = zero_counters
                   /\ max' = 0
                   /\ cum' = 0
                   /\ p_start' = pos + 1
                   /\ p_end' = pos + 1
              ELSE /\ rh' = rh
                   /\ c_n' = c1
                   /\ max' = max1
                   /\ cum' = cum1
                   /\ p_start' = p_start
                   /\ p_end' = end1
    /\ line_no' = line_no + 1
    /\ UNCHANGED <<routine, lines, d_score, scoring_scheme, pc7>>
    /\ UNCHANGED others7

\* after the loop: parse_sequence indexes rh.elevated_copies, which holds
\* no key when no segment was pushed (the index panics); simulate_new
\* returns rh
ScanEnd ==
    /\ pc7 = "scan"
    /\ line_no = len(lines)
    /\ IF routine = "parse_sequence"
       THEN IF DOMAIN rh.elevated_copies = {}
            THEN /\ pc7' = "panic"
                 /\ rh' = rh
            ELSE /\ pc7' = "done"
                 /\ rh' = [rh EXCEPT !.non_elevated_copies =
                              [k \in 0..3 |-> t_n[k] - rh.elevated_copies[k]]]
       ELSE /\ pc7' = "done"
            /\ rh' = rh
    /\ UNCHANGED <<routine, lines, d_score, scoring_scheme, line_no, cum, max,
                   p_start, p_end, c_n, t_n, m_n>>
    /\ UNCHANGED others7

Next7 == ScanLine \/ ScanEnd

-----------------------------------------------------------------------------
(* hw8::sum_log_prob on arbitrary arguments *)

\* the f64 values the function is called with: finite values on both sides
\* of the cutoff of logp1exp, the infinities and NaN
LogSamples ==
    {0 - FMax, -80000, LogCutoff - 1, LogCutoff, LogCutoff + 1, -1000, -530,
     -100, -69, -1, 0, 1, 69, 100, 0 - LogCutoff, 1 - LogCutoff, FMax,
     NegInf, PosInf, NaN}

InitL ==
    /\ log_a \in LogSamples
    /\ log_b \in LogSamples
    /\ log_sum = 0
    /\ log_sum_swapped = 0
    /\ pcL = "call"

\* the two calls sum_log_prob(a, b) and sum_log_prob(b, a)
CallSumLogProb ==
    /\ pcL = "call"
    /\ log_sum' = sum_log_prob(log_a, log_b)
    /\ log_sum_swapped' = sum_log_prob(log_b, log_a)
    /\ pcL' = "done"
    /\ UNCHANGED <<log_a, log_b>>
    /\ UNCHANGED othersL

NextL == CallSumLogProb

-----------------------------------------------------------------------------
(* aoc::day5::run.  A stack is a sequence of crates from bottom to top. *)

\* number of stacks loaded
NStacks == 3

\* most crates loaded
MaxLoaded == 3

Crates == {"[A]", "[B]"}

\* the numbers an action line may hold
MoveCounts == 0..(MaxLoaded + 1)

StackNumbers == 0..(NStacks + 1)

LoadedStacks == UNION {[1..h -> Crates] : h \in 0..MaxLoaded}

RECURSIVE crates_on(_, _)
crates_on(st, k) == IF k = 0 THEN 0 ELSE Len(st[k - 1]) + crates_on(st, k - 1)

\* how often crate c lies on the stacks st
crate_count(st, c) ==
    Cardinality({<<i, j>> \in (DOMAIN st) \X (1..MaxLoaded) :
                    j \in DOMAIN st[i] /\ st[i][j] = c})

\* the top n crates of stack a, in their order
top_crates(st, n, a) == SubSeq(st[a], Len(st[a]) - n + 1, Len(st[a]))

RECURSIVE reversed(_)
reversed(q) == IF q = <<>> THEN <<>> ELSE Append(reversed(Tail(q)), Head(q))

\* whether the line panics: stack number 0 (usize 0 - 1), a stack that does
\* not exist, or more crates than stack a holds (len - n below zero)
move_panics(st, n, a, b) ==
    \/ a = 0 \/ b = 0
    \/ a - 1 \notin DOMAIN st \/ b - 1 \notin DOMAIN st
    \/ n > Len(st[a - 1])

\* move_crates_2 moving the crates one at a time: pop, then push
move_crates_2_reversed(st, n, start_stack, end_stack) ==
    LET end_i == Len(st[start_stack]) - n
        moved_crates == reversed(top_crates(st, n, start_stack))
        split == [st EXCEPT ![start_stack] = SubSeq(@, 1, end_i)]
    IN  [split EXCEPT ![end_stack] = @ \o moved_crates]

\* split_off(end_i), then extend; start_stack and end_stack are 0-based
move_crates_2(st, n, start_stack, end_stack) ==
    LET end_i == Len(st[start_stack]) - n
        moved_crates == top_crates(st, n, start_stack)
        split == [st EXCEPT ![start_stack] = SubSeq(@, 1, end_i)]
    IN  [split EXCEPT ![end_stack] = @ \o moved_crates]

Init5 ==
    /\ stacks \in {st \in [0..(NStacks - 1) -> LoadedStacks] : crates_on(st, NStacks) <= MaxLoaded}
    /\ loaded = [c \in Crates |-> crate_count(stacks, c)]
    /\ action = <<0, 0, 0>>
    /\ pc5 = "move"

\* one line "move n from a to b"
MoveCrates ==
    /\ pc5 = "move"
    /\ \E n \in MoveCounts : \E a, b \in StackNumbers :
          /\ action' = <<n, a, b>>
          /\ IF move_panics(stacks, n, a, b)
             THEN /\ pc5' = "panic"
                  /\ stacks' = stacks
             ELSE /\ pc5' = "move"
                  /\ stacks' = move_crates_2(stacks, n, a - 1, b - 1)
    /\ UNCHANGED loaded
    /\ UNCHANGED others5

\* the end of the file: the top crate of every stack is printed;
\* stack[stack.len() - 1] panics on an empty stack
PrintTops ==
    /\ pc5 = "move"
    /\ pc5' = IF \E i \in DOMAIN stacks : stacks[i] = <<>> THEN "panic_print" ELSE "done"
    /\ UNCHANGED <<stacks, loaded, action>>
    /\ UNCHANGED others5

Next5 == MoveCrates \/ PrintTops

-----------------------------------------------------------------------------
(* aoc::day7::run.  A node's parent and children are node numbers; parent 0
   is None. *)

\* number of terminal lines replayed
MaxTermLines == 4

ROOT_DIR == "/"

UP_DIR == ".."

DirNames == {"a", "b"}

FileSizes == {10000000, 30000000}

\* the space the 70000000 disk may use (total_size - 40000000)
UsedSpaceLimit == 40000000

\* "$ cd <target>", "$ ls", "<size> <name>" and "dir <name>" lines
TermLines ==
    {[kind |-> "cd", target |-> t, size |-> 0] : t \in {ROOT_DIR, UP_DIR} \cup DirNames}
    \cup {[kind |-> "ls", target |-> "", size |-> 0]}
    \cup {[kind |-> "file", target |-> "", size |-> s] : s \in FileSizes}
    \cup {[kind |-> "dir", target |-> x, size |-> 0] : x \in DirNames}

Directory_new(name, parent) ==
    [name |-> name, size |-> 0, child_size |-> 0, children |-> <<>>, parent |-> parent]

\* the directory table and the current directory after "cd cd_target"
navigate_directory(ds, c, cd_target) ==
    IF cd_target = UP_DIR
    THEN <<ds, IF ds[c].parent = 0 THEN c ELSE ds[c].parent>>
    ELSE IF cd_target = ROOT_DIR
         THEN <<ds, c>>
         ELSE LET child == Len(ds) + 1
              IN  <<Append([ds EXCEPT ![c].children = Append(@, child)],
                           Directory_new(cd_target, c)),
                    child>>

\* a listed line: a file's size is added to the current directory, a
\* "dir" line is ignored
parse_ls(ds, c, line) ==
    IF line.kind = "file" THEN [ds EXCEPT ![c].size = @ + line.size] ELSE ds

RECURSIVE update_size(_, _)
RECURSIVE children_size(_, _)
\* the sum of update_size over the children cs
children_size(ds, cs) ==
    IF cs = <<>> THEN 0 ELSE update_size(ds, Head(cs)) + children_size(ds, Tail(cs))

\* child_size + size of node i once child_size is updated
update_size(ds, i) == ds[i].child_size + children_size(ds, ds[i].children) + ds[i].size

InitD7 ==
    /\ dirs = <<Directory_new(ROOT_DIR, 0)>>
    /\ cwd = 1
    /\ term_line = [kind |-> "ls", target |-> "", size |-> 0]
    /\ lines_read = 0
    /\ total_size = 0
    /\ pcD7 = "replay"

\* one step of the fold over the lines
ReadLine ==
    /\ pcD7 = "replay"
    /\ lines_read < MaxTermLines
    /\ \E line \in TermLines :
          /\ term_line' = line
          /\ IF line.kind = "cd"
             THEN LET r == navigate_directory(dirs, cwd, line.target)
                  IN  dirs' = r[1] /\ cwd' = r[2]
             ELSE IF line.kind = "ls"
                  THEN UNCHANGED <<dirs, cwd>>
                  ELSE dirs' = parse_ls(dirs, cwd, line) /\ cwd' = cwd
    /\ lines_read' = lines_read + 1
    /\ UNCHANGED <<total_size, pcD7>>
    /\ UNCHANGED othersD7

\* the end of the lines: update_size from the root, then the space to free;
\* total_size - 40000000 leaves no directory to unwrap when it is negative
ReportSizes ==
    /\ pcD7 = "replay"
    /\ dirs' = [i \in DOMAIN dirs |->
                  [dirs[i] EXCEPT !.child_size = @ + children_size(dirs, dirs[i].children)]]
    /\ total_size' = update_size(dirs, 1)
    /\ pcD7' = IF update_size(dirs, 1) < UsedSpaceLimit THEN "panic" ELSE "done"
    /\ UNCHANGED <<cwd, term_line, lines_read>>
    /\ UNCHANGED othersD7

NextD7 == ReadLine \/ ReportSizes

-----------------------------------------------------------------------------
(* hw5::run: WeightedDirectedAcyclicGraph::get_path_scores from "(0,0,0)".
   The graphs are the directed acyclic graphs on the nodes of Topo5 whose
   edges go forward in Topo5. *)

\* the nodes, in a topological order
Topo5 == <<"(0,0,0)", "(1,0,0)", "(0,1,0)", "(1,1,0)">>

Nodes5 == {Topo5[k] : k \in DOMAIN Topo5}

Start5 == "(0,0,0)"

ForwardPairs5 ==
    UNION {{<<Topo5[j], Topo5[k]>> : k \in (j + 1)..Len(Topo5)} : j \in DOMAIN Topo5}

Weights5 == {0 - 2, 1, 5}

\* no key in scores (a score is never negative)
NoScore == 0 - 1

\* std::cmp::max
isize_max(a, b) == IF a >= b THEN a ELSE b

\* node.children as a set of names
children5(g, node) == {c \in Nodes5 : <<node, c>> \in DOMAIN g}

\* the orders a HashMap may iterate the set S in
iteration_orders(S) ==
    {q \in [1..Cardinality(S) -> S] : \A x \in S : \E k \in DOMAIN q : q[k] = x}

RECURSIVE relax_children5(_, _, _, _)
\* the for loop over node.children in the order given: scores afterwards
relax_children5(g, sc, node, order) ==
    IF order = <<>> THEN sc
    ELSE LET child == Head(order)
             score == isize_max(0, g[<<node, child>>] + sc[node])
         IN  relax_children5(g,
                 IF sc[child] # NoScore /\ sc[child] >= score
                 THEN sc
                 ELSE [sc EXCEPT ![child] = score],
                 node, Tail(order))

\* the children pushed to the queue: those without a score when met
pushed_children5(sc, order) == SelectSeq(order, LAMBDA c : sc[c] = NoScore)

InitH5 ==
    /\ \E E \in SUBSET ForwardPairs5 : dag5 \in [E -> Weights5]
    /\ scores5 = [n \in Nodes5 |-> IF n = Start5 THEN 0 ELSE NoScore]
    /\ queue5 = <<Start5>>
    /\ max_score5 = NoScore
    /\ pcH5 = "search"

\* one turn of the while loop: pop_front, then the loop over the children
VisitNode5 ==
    /\ pcH5 = "search"
    /\ queue5 # <<>>
    /\ LET node == Head(queue5)
       IN  \E order \in iteration_orders(children5(dag5, node)) :
              /\ scores5' = relax_children5(dag5, scores5, node, order)
              /\ queue5' = Tail(queue5) \o pushed_children5(scores5, order)
    /\ UNCHANGED <<dag5, max_score5, pcH5>>
    /\ UNCHANGED othersH5

\* the queue is empty: run takes the largest score
PrintScore5 ==
    /\ pcH5 = "search"
    /\ queue5 = <<>>
    /\ max_score5' = CHOOSE s \in {scores5[n] : n \in Nodes5} :
                        \A n \in Nodes5 : scores5[n] <= s
    /\ pcH5' = "done"
    /\ UNCHANGED <<dag5, scores5, queue5>>
    /\ UNCHANGED othersH5

NextH5 == VisitNode5 \/ PrintScore5

-----------------------------------------------------------------------------
(* hw4::run, part 2: print_best_path_nodes(START, END), which calls
   get_path_scores(isize::MIN, {START}).  The graphs are the directed
   acyclic graphs on the nodes of Topo4 whose edges go forward in Topo4. *)

\* the nodes, in a topological order
Topo4 == <<"V0", "START", "V1", "END">>

Nodes4 == {Topo4[k] : k \in DOMAIN Topo4}

START_KEY == "START"

END_KEY == "END"

ForwardPairs4 ==
    UNION {{<<Topo4[j], Topo4[k]>> : k \in (j + 1)..Len(Topo4)} : j \in DOMAIN Topo4}

Weights4 == {0 - 2, 1, 5}

\* node.children and node.parents as sets of names
children4(g, node) == {c \in Nodes4 : <<node, c>> \in DOMAIN g}

parents4(g, node) == {p \in Nodes4 : <<p, node>> \in DOMAIN g}

\* the nodes get_path_scores starts from: those of the constraints that
\* have no parents
source_nodes4(g, constraints) ==
    {n \in Nodes4 : (constraints = {} \/ n \in constraints) /\ parents4(g, n) = {}}

RECURSIVE relax_children4(_, _, _, _)
\* the for loop over node.children in the order given: scores afterwards;
\* max(isize::MIN, x) is x
relax_children4(g, sc, node, order) ==
    IF order = <<>> THEN sc
    ELSE LET child == Head(order)
             score == g[<<node, child>>] + sc[node]
         IN  relax_children4(g,
                 IF child \in DOMAIN sc /\ sc[child] >= score
                 THEN sc
                 ELSE [n \in (DOMAIN sc) \cup {child} |-> IF n = child THEN score ELSE sc[n]],
                 node, Tail(order))

InitH4 ==
    /\ \E E \in SUBSET ForwardPairs4 : dag4 \in [E -> Weights4]
    /\ scores4 = [n \in source_nodes4(dag4, {START_KEY}) |-> 0]
    /\ queue4 \in iteration_orders(source_nodes4(dag4, {START_KEY}))
    /\ end_score4 = 0
    /\ pcH4 = "search"

\* one turn of the while loop: pop_front, then the loop over the children,
\* every one of which is pushed
VisitNode4 ==
    /\ pcH4 = "search"
    /\ queue4 # <<>>
    /\ LET node == Head(queue4)
       IN  \E order \in iteration_orders(children4(dag4, node)) :
              /\ scores4' = relax_children4(dag4, scores4, node, order)
              /\ queue4' = Tail(queue4) \o order
    /\ UNCHANGED <<dag4, end_score4, pcH4>>
    /\ UNCHANGED othersH4

\* the queue is empty: scores.get(&end).unwrap()
PrintBestPathNodes ==
    /\ pcH4 = "search"
    /\ queue4 = <<>>
    /\ IF END_KEY \in DOMAIN scores4
       THEN end_score4' = scores4[END_KEY] /\ pcH4' = "done"
       ELSE end_score4' = end_score4 /\ pcH4' = "panic"
    /\ UNCHANGED <<dag4, scores4, queue4>>
    /\ UNCHANGED othersH4

NextH4 == VisitNode4 \/ PrintBestPathNodes

-----------------------------------------------------------------------------
(* The programs: main dispatches to one run *)

IdleH4 ==
    /\ dag4 = <<>>
    /\ scores4 = <<>>
    /\ queue4 = <<>>
    /\ end_score4 = 0
    /\ pcH4 = "idle"

IdleH5 ==
    /\ dag5 = <<>>
    /\ scores5 = <<>>
    /\ queue5 = <<>>
    /\ max_score5 = NoScore
    /\ pcH5 = "idle"

IdleD7 ==
    /\ dirs = <<>>
    /\ cwd = 0
    /\ term_line = [kind |-> "ls", target |-> "", size |-> 0]
    /\ lines_read = 0
    /\ total_size = 0
    /\ pcD7 = "idle"

Idle5 ==
    /\ stacks = <<>>
    /\ loaded = <<>>
    /\ action = <<0, 0, 0>>
    /\ pc5 = "idle"

Idle8 ==
    /\ sequence = <<>>
    /\ pc8 = "idle"
    /\ iterations = 0
    /\ prev_ll = PrevLLInit
    /\ current_ll = CurrentLLInit
    /\ start_probs = InitStartProbs
    /\ transition_probs = InitTransitionProbs
    /\ emission_probs = InitEmissionProbs
    /\ forward = <<>>
    /\ backward = <<>>
    /\ fb = [s \in States |-> 0]
    /\ fwb = [s \in States |-> 0]

Idle9 ==
    /\ states = <<>>
    /\ aln = <<>>
    /\ start = 0
    /\ end = 0
    /\ pc9 = "idle"
    /\ score_tracker = <<>>
    /\ state_tracker = <<>>
    /\ state_segments = [s \in States |-> <<>>]
    /\ best_path = <<>>
    /\ state_histogram = <<>>
    /\ segment_histogram = <<>>

Idle7 ==
    /\ routine = "none"
    /\ lines = <<>>
    /\ d_score = 0
    /\ scoring_scheme = <<>>
    /\ pc7 = "idle"
    /\ line_no = 0
    /\ cum = 0
    /\ max = 0
    /\ p_start = 1
    /\ p_end = 1
    /\ c_n = zero_counters
    /\ t_n = zero_counters
    /\ m_n = zero_counters
    /\ rh = ReadHistogram_new

IdleL ==
    /\ log_a = 0
    /\ log_b = 0
    /\ log_sum = 0
    /\ log_sum_swapped = 0
    /\ pcL = "idle"

\* sum_log_prob as called from hw8::compute_scores and hw8::run
InitLogAdd == InitL /\ Idle8 /\ Idle9 /\ Idle7 /\ Idle5 /\ IdleD7 /\ IdleH5 /\ IdleH4

SpecLogAdd == InitLogAdd /\ [][NextL]_vars

\* --hw 7
InitHw7 == Init7 /\ Idle8 /\ Idle9 /\ IdleL /\ Idle5 /\ IdleD7 /\ IdleH5 /\ IdleH4

SpecHw7 == InitHw7 /\ [][Next7]_vars

\* --hw 8
InitHw8 == Init8 /\ Idle9 /\ Idle7 /\ IdleL /\ Idle5 /\ IdleD7 /\ IdleH5 /\ IdleH4

SpecHw8 == InitHw8 /\ [][Next8]_vars

\* --hw 9
InitHw9 == Init9 /\ Idle8 /\ Idle7 /\ IdleL /\ Idle5 /\ IdleD7 /\ IdleH5 /\ IdleH4

SpecHw9 == InitHw9 /\ [][Next9]_vars

\* --aoc 5
InitDay5 == Init5 /\ Idle8 /\ Idle9 /\ Idle7 /\ IdleL /\ IdleD7 /\ IdleH5 /\ IdleH4

SpecDay5 == InitDay5 /\ [][Next5]_vars

\* --aoc 7
InitDay7 == InitD7 /\ Idle5 /\ Idle8 /\ Idle9 /\ Idle7 /\ IdleL /\ IdleH5 /\ IdleH4

SpecDay7 == InitDay7 /\ [][NextD7]_vars

\* --hw 5
InitHw5 == InitH5 /\ IdleD7 /\ Idle5 /\ Idle8 /\ Idle9 /\ Idle7 /\ IdleL /\ IdleH4

SpecHw5 == InitHw5 /\ [][NextH5]_vars

\* --hw 4
InitHw4 == InitH4 /\ IdleH5 /\ IdleD7 /\ Idle5 /\ Idle8 /\ Idle9 /\ Idle7 /\ IdleL

SpecHw4 == InitHw4 /\ [][NextH4]_vars

-----------------------------------------------------------------------------
(* Properties of hw8::run *)

n_seq == len(sequence)

\* log_add of the specification: -infinity (probability zero) is its identity
log_add(a, b) ==
    IF a = NegInf THEN b ELSE IF b = NegInf THEN a ELSE sum_log_prob(a, b)

\* log_add over the two states of g[0], g[1]
log_add_states(g) == log_add(g[0], g[1])

\* a log-probability equal to 0 (probability 1) up to 0.05 nat
is_log_one(x) == x # NaN /\ x >= -5 /\ x <= 5

\* two log-values equal up to 0.05 nat
close(x, y) ==
    x # NaN /\ y # NaN /\ (x = y \/ (f64_is_finite(x) /\ f64_is_finite(y)
                                     /\ x - y <= 5 /\ y - x <= 5))

\* log of the sum over the alphabet of the probabilities of one emission row
RECURSIVE log_add_row(_, _)
log_add_row(row, cs) ==
    IF cs = {} THEN NegInf
    ELSE LET c == CHOOSE x \in cs : TRUE
         IN  log_add(log_add_row(row, cs \ {c}), row[c])

\* the state right after a re-estimation
Reestimated == pc8 = "loop" /\ iterations >= 1

\* the state between the two tables and the re-estimation
TablesComputed == pc8 = "estimate"

\* the row of the backward table that belongs to sequence position t: the
\* table is built over the reversed sequence
backward_at(t) == backward[n_seq - 1 - t]

\* gamma[t][s] = forward[t][s] + backward[t][s] - L
gamma(t, s) == f64_sub(f64_add(forward[t][s], backward_at(t)[s]), current_ll)

\* C1: after every re-estimation the start probabilities, each state's
\* outgoing transition probabilities and each state's emission probabilities
\* sum to 1 in probability space.
C1_ReestimatedTablesAreDistributions ==
    Reestimated =>
        /\ is_log_one(log_add_states(start_probs))
        /\ \A s \in States : is_log_one(log_add_states(transition_probs[s]))
        /\ \A s \in States : is_log_one(log_add_row(emission_probs[s], Bases))

\* C2: the backward table holds 0 at the last position, and at position
\* t < n-1, state s, the log_add over s' of backward[t+1][s'] +
\* transition[s][s'] + emission[s'][symbol[t+1]].
C2_BackwardRecurrence ==
    TablesComputed =>
        /\ \A s \in States : backward_at(n_seq - 1)[s] = 0
        /\ \A t \in 0..(n_seq - 2) : \A s \in States :
              backward_at(t)[s] =
                  log_add_states([d \in States |->
                      f64_add(f64_add(backward_at(t + 1)[d], transition_probs[s][d]),
                              emission_probs[d][sequence[t + 1]])])

\* the parameters and the forward table hold no infinity and no NaN
finite_tables ==
    /\ \A s \in States : f64_is_finite(start_probs[s])
    /\ \A s \in States : \A d \in States : f64_is_finite(transition_probs[s][d])
    /\ \A s \in States : \A c \in Bases : f64_is_finite(emission_probs[s][c])
    /\ \A t \in DOMAIN forward : \A s \in States : f64_is_finite(forward[t][s])

\* equal as f64 results: the same value, or both outside the finite range
\* (a sum that overflows in one order of addition overflows or is NaN in
\* the other)
same_f64(x, y) == x = y \/ (~f64_is_finite(x) /\ ~f64_is_finite(y))

\* C3: the forward table has one row per symbol and one entry per state;
\* row 0 is start[s] + emission[s][symbol[0]], and row t > 0 is, for state
\* s, the log_add over s' of row[t-1][s'] + transition[s'][s], plus
\* emission[s][symbol[t]].
C3_ForwardRecurrence ==
    TablesComputed =>
        /\ DOMAIN forward = 0..(n_seq - 1)
        /\ \A t \in DOMAIN forward : DOMAIN forward[t] = States
        /\ \A s \in States :
              forward[0][s] = f64_add(start_probs[s], emission_probs[s][sequence[0]])
        /\ \A t \in 1..(n_seq - 1) : \A s \in States :
              same_f64(forward[t][s],
                  f64_add(log_add_states([d \in States |->
                              f64_add(forward[t - 1][d], transition_probs[d][s])]),
                          emission_probs[s][sequence[t]]))

\* C3 witness: the table of a sequence of three symbols, all entries finite,
\* computed from re-estimated parameters
C3_Witness == TablesComputed /\ n_seq = 3 /\ iterations = 2 /\ finite_tables

\* C4: the log-likelihood of the forward table's last row equals the one of
\* the backward table's position 0 with the start probabilities and the
\* first emission.
C4_ForwardBackwardLikelihood ==
    TablesComputed =>
        close(current_ll,
              log_add_states([s \in States |->
                  f64_add(f64_add(start_probs[s], emission_probs[s][sequence[0]]),
                          backward_at(0)[s])]))

\* C5: the new start log-probability of state s is gamma[0][s].
C5_StartIsGammaZero ==
    Reestimated => \A s \in States : start_probs[s] = gamma(0, s)

\* log_add accumulation of gamma[t][s] over the positions 0..t that hold c
\* (every position when c is "*"), from the empty sum
RECURSIVE gamma_sum(_, _, _)
gamma_sum(s, c, t) ==
    IF t < 0 THEN NegInf
    ELSE IF c = "*" \/ sequence[t] = c
         THEN log_add(gamma_sum(s, c, t - 1), gamma(t, s))
         ELSE gamma_sum(s, c, t - 1)

\* C6: the new emission log-probability of (s, c) is the accumulated gamma
\* over the positions holding c minus the accumulated gamma over all
\* positions; a symbol that does not occur gets probability zero.
C6_EmissionIsGammaRatio ==
    Reestimated =>
        \A s \in States : \A c \in Bases :
            close(emission_probs[s][c],
                  f64_sub(gamma_sum(s, c, n_seq - 1), gamma_sum(s, "*", n_seq - 1)))

\* xi[t][s][d] = forward[t][s] + transition[s][d] + emission[d][symbol[t+1]]
\*               + backward[t+1][d] - L
xi(t, s, d) ==
    f64_sub(f64_add(f64_add(f64_add(forward[t][s], transition_probs[s][d]),
                            emission_probs[d][sequence[t + 1]]),
                    backward_at(t + 1)[d]),
            current_ll)

RECURSIVE xi_sum(_, _, _)
xi_sum(s, d, t) ==
    IF t < 0 THEN NegInf ELSE log_add(xi_sum(s, d, t - 1), xi(t, s, d))

\* C7: the new transition log-probability of s to d is the accumulated
\* xi[t][s][d] over t = 0..n-2 minus the accumulated gamma[t][s] over the
\* same range.
C7_TransitionIsXiRatio ==
    [][(pc8 = "estimate" /\ pc8' = "loop") =>
          \A s \in States : \A d \in States :
              close(transition_probs'[s][d],
                    f64_sub(xi_sum(s, d, n_seq - 2), gamma_sum(s, "*", n_seq - 2)))]_vars

\* C8: the loop ends only after two iterations whose log-likelihoods are
\* numbers at most 0.1 apart; neither the initial placeholders nor a NaN
\* end it.
C8_StopsOnlyOnConvergence ==
    pc8 = "done" =>
        /\ iterations >= 2
        /\ ~f64_is_nan(prev_ll) /\ ~f64_is_nan(current_ll)
        /\ LET d == f64_abs(f64_sub(prev_ll, current_ll))
           IN  ~f64_is_nan(d) /\ d <= ConvergenceThreshold

\* C9: a run that completes has executed at least one whole iteration: the
\* two tables exist for every position and the reported tables are the ones
\* re-estimated from them.
C9_AtLeastOneIteration ==
    pc8 = "done" =>
        /\ iterations >= 1
        /\ DOMAIN forward = DOMAIN sequence /\ DOMAIN backward = DOMAIN sequence
        /\ current_ll = sum_log_prob(forward[n_seq - 1][0], forward[n_seq - 1][1])
        /\ start_probs = new_start_probs(forward, backward, n_seq, current_ll)

\* C9 witness: a completed run
C9_Witness == pc8 = "done" /\ iterations >= 1 /\ n_seq >= 2

\* the sequence is empty or holds a symbol with no entry in the emission
\* tables
invalid_input ==
    n_seq = 0 \/ \E t \in DOMAIN sequence : \E s \in States :
                    sequence[t] \notin DOMAIN emission_probs[s]

\* C19: on an empty sequence or a symbol without emission entry the forward
\* evaluation returns an error to its caller: the run does not panic.
C19_InvalidInputIsNoPanic == invalid_input => pc8 # "panic"

\* C20: a log-likelihood that is NaN or +infinity is never re-estimated
\* from and never reported: the run does not go on with it.
C20_NonFiniteLikelihoodDetected ==
    (pc8 = "done" \/ Reestimated) => (current_ll # NaN /\ current_ll # PosInf)

\* C21: the loop ends as converged only on two consecutive log-likelihoods
\* within the threshold; a run whose log-likelihoods never come that close
\* is ended by the iteration cap and reported as non-convergence.
C21_LoopLeftOnConvergenceOnly ==
    [][(pc8 = "loop" /\ pc8' = "done") =>
          LET change == f64_abs(f64_sub(prev_ll, current_ll))
          IN  ~f64_is_nan(change) /\ change <= ConvergenceThreshold]_vars

\* C26: for every non-empty sequence over {A,C,G,T}, also of length 1, an
\* iteration completes: the run does not panic on an index.
C26_ValidSequenceNoPanic ==
    (n_seq >= 1 /\ \A t \in DOMAIN sequence : sequence[t] \in Bases) => pc8 # "panic"

-----------------------------------------------------------------------------
(* Properties of hw9::run *)

n_aln == len(aln)

\* the states whose segments cover column t of the alignment
decoded_states(t) ==
    {s \in States : \E k \in DOMAIN state_segments[s] :
        /\ state_segments[s][k][1] <= start + t
        /\ start + t <= state_segments[s][k][2]}

\* C10: the decoded path ends in the state with the best final score and
\* the state at every position t-1 is state_tracker[state at t][t], also
\* when the best path changes state between the last two positions (stated
\* for alignments of two columns or more).
C10_DecodedPathIsBestPath ==
    (pc9 = "done" /\ n_aln >= 2) =>
        \E q \in [0..(n_aln - 1) -> States] :
            /\ \A t \in 0..(n_aln - 1) : decoded_states(t) = {q[t]}
            /\ \A s \in States :
                  score_tracker[q[n_aln - 1]][n_aln - 1] >= score_tracker[s][n_aln - 1]
            /\ \A t \in 1..(n_aln - 1) : q[t - 1] = state_tracker[q[t]][t]

\* the scoring pass has run
Scored == pc9 \in {"backtrack", "print", "done"}

\* score[t-1][s'] + transition[s'][s]
candidate(t, p, s) == f64_add(score_tracker[p][t - 1], hw9_transition_probs[p][s])

\* max over s' of (score[t-1][s'] + transition[s'][s])
best_candidate(t, s) ==
    IF f64_gt(candidate(t, 0, s), candidate(t, 1, s))
    THEN candidate(t, 0, s) ELSE candidate(t, 1, s)

\* the state the backtrack starts from: the state of the segment that ends
\* at the last coordinate
final_states ==
    {s \in States : \E k \in DOMAIN state_segments[s] : state_segments[s][k][2] = end}

\* the scores of the claim: the seed at position 0 and the maximum plus the
\* emission at every later position
scores_are_viterbi ==
    \A s \in States :
        /\ score_tracker[s][0] = f64_add(hw9_start_probs[s], states[s][aln[0]])
        /\ \A t \in 1..(n_aln - 1) :
              score_tracker[s][t] = f64_add(best_candidate(t, s), states[s][aln[t]])

\* the final state is the one with the greater final score, state index 1
\* when the two are equal
final_state_rule ==
    (pc9 = "done" /\ n_aln >= 2) =>
        final_states = {IF f64_gt(score_tracker[0][n_aln - 1], score_tracker[1][n_aln - 1])
                        THEN 0 ELSE 1}

\* C11 as stated: the scores follow the recurrence, state_tracker[s][t] is
\* a predecessor whose score[t-1][s'] + transition[s'][s] is the maximum
\* over s', with state index 1 recorded when the two are equal, and the
\* final state is chosen by the same rule.
C11_PredecessorAttainsCandidateMax ==
    Scored =>
        /\ scores_are_viterbi
        /\ \A s \in States : \A t \in 1..(n_aln - 1) :
              /\ candidate(t, state_tracker[s][t], s) = best_candidate(t, s)
              /\ candidate(t, 0, s) = candidate(t, 1, s) => state_tracker[s][t] = 1
        /\ final_state_rule

\* score[t-1][s'] + transition[s'][s] + emission[s][symbol[t]], the two
\* numbers the code compares
path_score(t, p, s) == f64_add(candidate(t, p, s), states[s][aln[t]])

\* C11 amended: the scores follow the recurrence, state_tracker[s][t] is a
\* predecessor whose score[t-1][s'] + transition[s'][s] + emission[s][symbol[t]]
\* is score[t][s], state index 1 is recorded whenever these two sums are
\* equal (also when both are -infinity), and the final state is chosen by
\* the same rule.
C11_PredecessorAttainsScore ==
    Scored =>
        /\ scores_are_viterbi
        /\ \A s \in States : \A t \in 1..(n_aln - 1) :
              /\ path_score(t, state_tracker[s][t], s) = score_tracker[s][t]
              /\ \A p \in States : ~f64_gt(path_score(t, p, s), score_tracker[s][t])
              /\ path_score(t, 0, s) = path_score(t, 1, s) => state_tracker[s][t] = 1
        /\ final_state_rule

\* C11 witness: a finished run in which the two path scores compared at
\* some position were equal, and the two final scores are equal
C11_Witness ==
    /\ pc9 = "done" /\ n_aln >= 2
    /\ \E s \in States : \E t \in 1..(n_aln - 1) :
          /\ path_score(t, 0, s) = path_score(t, 1, s)
          /\ state_tracker[s][t] = 1
    /\ score_tracker[0][n_aln - 1] = score_tracker[1][n_aln - 1]

\* the emitted segments, each with its state
emitted_segments ==
    UNION {{<<s, state_segments[s][k]>> : k \in DOMAIN state_segments[s]} : s \in States}

\* the emitted segments that hold coordinate x
segments_at(x) == {g \in emitted_segments : g[2][1] <= x /\ x <= g[2][2]}

segments_tile ==
    /\ \A s \in States :
          Cardinality({<<s, k>> : k \in DOMAIN state_segments[s]}) =
          Cardinality({state_segments[s][k] : k \in DOMAIN state_segments[s]})
    /\ \A g \in emitted_segments : start <= g[2][1] /\ g[2][1] <= g[2][2] /\ g[2][2] <= end
    /\ \A x \in start..end : Cardinality(segments_at(x)) = 1
    /\ \A g, h \in emitted_segments : g[2][2] + 1 = h[2][1] => g[1] # h[1]

\* C12: for every alignment of n >= 1 columns the emitted segments do not
\* overlap, cover every coordinate start..end exactly once, have
\* start <= end, and adjacent segments belong to different states.
C12_SegmentsTileAlignment == pc9 = "done" => segments_tile

\* a state that gives A and T more probability than G and C
favours_AT(st) ==
    /\ DOMAIN st = BaseColumns
    /\ \A x \in {"AAA", "TTT"} : \A y \in {"GGG", "CCC"} : f64_gt(st[x], st[y])

favours_GC(st) ==
    /\ DOMAIN st = BaseColumns
    /\ \A x \in {"GGG", "CCC"} : \A y \in {"AAA", "TTT"} : f64_gt(st[x], st[y])

\* exactly two segments: positions 0-7 in state a, positions 8-15 in state b
two_halves(a, b) ==
    /\ state_segments[a] = <<(<<start, start + 7>>)>>
    /\ state_segments[b] = <<(<<start + 8, start + 15>>)>>

\* C13 as stated: for any two states of which one favours A/T and the other
\* G/C, AAAATTTTGGGGCCCC is decoded as positions 0-7 in the A/T state and
\* positions 8-15 in the G/C state.
C13_SixteenSymbolsAnyFavouringStates ==
    (pc9 = "done" /\ aln = SixteenColumns) =>
        \A a, b \in States :
            (favours_AT(states[a]) /\ favours_GC(states[b])) => two_halves(a, b)

\* emission probability 0.4 for each favoured base and 0.1 for each other
strongly_favours_AT(st) ==
    /\ DOMAIN st = BaseColumns
    /\ \A c \in BaseColumns : st[c] = IF c \in {"AAA", "TTT"} THEN ln(400) ELSE ln(100)

strongly_favours_GC(st) ==
    /\ DOMAIN st = BaseColumns
    /\ \A c \in BaseColumns : st[c] = IF c \in {"GGG", "CCC"} THEN ln(400) ELSE ln(100)

\* C13 amended: with emission probabilities 0.4 / 0.1, whichever of the two
\* states is the A/T one, AAAATTTTGGGGCCCC is decoded as positions 0-7 in
\* the A/T state and positions 8-15 in the G/C state.
C13_SixteenSymbolsStrongStates ==
    (pc9 = "done" /\ aln = SixteenColumns) =>
        \A a, b \in States :
            (strongly_favours_AT(states[a]) /\ strongly_favours_GC(states[b]))
                => two_halves(a, b)

\* C13 witness: the sixteen columns decoded with the G/C state as state 1
\* and the A/T state as state 2
C13_Witness ==
    /\ pc9 = "done" /\ aln = SixteenColumns
    /\ strongly_favours_GC(states[0]) /\ strongly_favours_AT(states[1])
    /\ two_halves(1, 0)

\* the number of coordinates that the segments of state s hold
positions_in_state(s) ==
    Cardinality({x \in start..end : \E g \in segments_at(x) : g[1] = s})

\* C18: the State Histogram gives for each state the number of positions
\* decoded in that state, segment ends counted as inclusive, so that the
\* two values sum to end - start + 1 (stated for alignments of two columns
\* or more, where the segments cover every position).
C18_StateHistogramCountsPositions ==
    (pc9 = "done" /\ n_aln >= 2) =>
        /\ \A s \in States : state_histogram[s] = positions_in_state(s)
        /\ state_histogram[0] + state_histogram[1] = end - start + 1

-----------------------------------------------------------------------------
(* Properties of the segmentation scan of hw6 and hw7 *)

\* the scan ran on the score stream +2 +2 +2 -5 -5 +2 +2 at positions 0..6
\* with fall-off 4
seven_scores_scanned ==
    /\ DOMAIN lines = 0..6
    /\ \A i \in 0..6 :
          /\ lines[i].pos = i
          /\ get_read_score(lines[i].cnt, scoring_scheme) =
                <<2, 2, 2, -5, -5, 2, 2>>[i + 1] * ScoreUnit
    /\ d_score = -4 * ScoreUnit
    /\ line_no = 7

\* C14: on the score stream +2 +2 +2 -5 -5 +2 +2 at positions 0..6 with
\* fall-off 4 the scan emits exactly one segment, positions 0 to 2 with
\* peak score 6; the later run of +2 scores produces no segment.
C14_SevenScoresOneSegment ==
    seven_scores_scanned => rh.segs = <<(<<0, 2, 6 * ScoreUnit>>)>>

\* a pass of the loop is taken
line_scanned == pc7 = "scan" /\ line_no' = line_no + 1

\* the cumulative score of the pass and the running maximum with it
scan_sum == cum + get_read_score(lines[line_no].cnt, scoring_scheme)

scan_peak == IF scan_sum >= max THEN scan_sum ELSE max

\* the pass closed the running segment / left it open
segment_closed ==
    cum' = 0 /\ max' = 0 /\ p_start' = lines[line_no].pos + 1

segment_kept_open == cum' = scan_sum /\ max' = scan_peak /\ p_start' = p_start

\* the pass emitted the closed segment
segment_emitted ==
    rh'.segs = Append(rh.segs, <<p_start, IF scan_sum >= max THEN lines[line_no].pos
                                          ELSE p_end, scan_peak>>)

fall_off == 0 - d_score

reporting_threshold == 0 - d_score

C17_SegmentsOrderedDisjoint ==
    (\A i \in DOMAIN lines : i > 0 => lines[i - 1].pos < lines[i].pos) =>
        \A k \in DOMAIN rh.segs :
            /\ rh.segs[k][1] <= rh.segs[k][2]
            /\ k > 1 => rh.segs[k][1] > rh.segs[k - 1][2]

\* the number of lines whose read count is of class k
lines_of_class(k) == Cardinality({i \in DOMAIN lines : count_bucket(lines[i].cnt) = k})

\* C29: parse_sequence returns a complete histogram for every well-formed
\* input, also when no segment reaches the threshold: it does not panic,
\* and for each class k elevated[k] + non_elevated[k] is the number of
\* input positions of class k.
C29_HistogramAlwaysComplete ==
    (routine = "parse_sequence" /\ len(lines) >= 1) =>
        /\ pc7 # "panic"
        /\ pc7 = "done" =>
              \A k \in 0..3 :
                  rh.elevated_copies[k] + rh.non_elevated_copies[k] = lines_of_class(k)

\* the sum of the scores of the lines 0..(i - 1) whose position lies in lo..hi
RECURSIVE score_between(_, _, _)
score_between(lo, hi, i) ==
    IF i = 0 THEN 0
    ELSE score_between(lo, hi, i - 1) +
         (IF lo <= lines[i - 1].pos /\ lines[i - 1].pos <= hi
          THEN get_read_score(lines[i - 1].cnt, scoring_scheme) ELSE 0)

\* C30: every emitted segment (start, end, score) begins and ends at a
\* processed position and its score is the sum of the scores of the
\* processed positions start..end; the first segment of a run starts at
\* the first processed position.
C30_SegmentScoreIsSumOfItsPositions ==
    \A k \in DOMAIN rh.segs :
        /\ \E i \in DOMAIN lines : lines[i].pos = rh.segs[k][1]
        /\ \E i \in DOMAIN lines : lines[i].pos = rh.segs[k][2]
        /\ rh.segs[k][3] = score_between(rh.segs[k][1], rh.segs[k][2], len(lines))

-----------------------------------------------------------------------------
(* Properties of hw8::sum_log_prob *)

\* C22: sum_log_prob(a, b) = sum_log_prob(b, a) for all finite a and b,
\* also for a = b and for differences beyond the cutoff.
C22_SumLogProbCommutes ==
    (pcL = "done" /\ f64_is_finite(log_a) /\ f64_is_finite(log_b)) =>
        log_sum = log_sum_swapped

\* C22 witness: two different finite arguments further apart than the cutoff
C22_Witness ==
    /\ pcL = "done" /\ f64_is_finite(log_a) /\ f64_is_finite(log_b)
    /\ log_a - log_b < LogCutoff
    /\ log_sum = log_b

\* C23: whenever an argument is -infinity the result is the other argument;
\* sum_log_prob(-infinity, -infinity) is -infinity.
C23_NegInfIsIdentity ==
    pcL = "done" =>
        /\ (log_b = NegInf /\ log_a # NaN) => log_sum = log_a
        /\ (log_a = NegInf /\ log_b # NaN) => log_sum = log_b

-----------------------------------------------------------------------------
(* Properties of aoc::day5::run *)

\* C24: a move of n crates from a to b with n not above the height of a
\* takes the top n crates of a and puts them on b in the order they had,
\* and leaves every other stack as it was; the crates on all stacks are
\* always the loaded ones.
C24_MoveKeepsOrderAndCrates ==
    /\ [](\A c \in Crates : crate_count(stacks, c) = loaded[c])
    /\ [][\A n \in MoveCounts : \A a, b \in 1..NStacks :
             (pc5 = "move" /\ pc5' \in {"move", "panic"} /\ action' = <<n, a, b>>
                 /\ n <= Len(stacks[a - 1])) =>
                 /\ pc5' = "move"
                 /\ \A i \in DOMAIN stacks : i # a - 1 /\ i # b - 1 => stacks'[i] = stacks[i]
                 /\ a # b =>
                       /\ stacks'[a - 1] = SubSeq(stacks[a - 1], 1, Len(stacks[a - 1]) - n)
                       /\ stacks'[b - 1] = stacks[b - 1] \o top_crates(stacks, n, a - 1)
                 /\ a = b => stacks'[a - 1] = stacks[a - 1]]_vars

\* C24 witness: two different crates were moved together onto a stack that
\* held a crate
C24_Witness ==
    /\ pc5 = "move" /\ action[1] = 2 /\ action[2] # action[3]
    /\ action[3] - 1 \in DOMAIN stacks
    /\ Len(stacks[action[3] - 1]) >= 3
    /\ LET q == stacks[action[3] - 1] IN q[Len(q)] # q[Len(q) - 1]

-----------------------------------------------------------------------------
(* Properties of aoc::day7::run *)

\* the children of directory d that are named x
children_named(ds, d, x) == {i \in DOMAIN ds : ds[i].parent = d /\ ds[i].name = x}

\* C25: "cd /" makes the outermost directory (node 1) the current one from
\* any directory; "cd x" where the current directory has a child named x
\* makes that child the current directory and makes no new node; no
\* directory ever has two children of one name.
C25_CdRootAndCdExistingChild ==
    /\ [][(lines_read' = lines_read + 1 /\ term_line'.kind = "cd") =>
            /\ term_line'.target = ROOT_DIR => cwd' = 1
            /\ (term_line'.target \in DirNames
                    /\ children_named(dirs, cwd, term_line'.target) # {}) =>
                  /\ cwd' \in children_named(dirs, cwd, term_line'.target)
                  /\ Len(dirs') = Len(dirs)]_vars
    /\ [](\A i, j \in DOMAIN dirs :
            (dirs[i].parent = dirs[j].parent /\ dirs[i].name = dirs[j].name) => i = j)

-----------------------------------------------------------------------------
(* Properties of hw5 get_path_scores *)

\* the largest number of the non-empty set S
largest(S) == CHOOSE s \in S : \A t \in S : t <= s

RECURSIVE local_score(_, _)
\* the largest local-alignment score (running sum, clamped below at 0
\* after each edge) of a path from Start5 to Topo5[k]; NoScore when no
\* path leads there
local_score(g, k) ==
    IF Topo5[k] = Start5 THEN 0
    ELSE LET through == {isize_max(0, local_score(g, j) + g[<<Topo5[j], Topo5[k]>>]) :
                            j \in {i \in 1..(k - 1) :
                                     /\ <<Topo5[i], Topo5[k]>> \in DOMAIN g
                                     /\ local_score(g, i) # NoScore}}
         IN  IF through = {} THEN NoScore ELSE largest(through)

\* C27: when get_path_scores returns, every node that can be reached from
\* the start has the largest local-alignment score of the paths leading to
\* it, in whatever order the children were iterated.
C27_ScoresAreBestLocalScores ==
    pcH5 = "done" =>
        \A k \in DOMAIN Topo5 :
            local_score(dag5, k) # NoScore => scores5[Topo5[k]] = local_score(dag5, k)

-----------------------------------------------------------------------------
(* Properties of hw4 print_best_path_nodes *)

RECURSIVE path_weights(_, _)
\* the total weights of the paths from START to Topo4[k]
path_weights(g, k) ==
    IF Topo4[k] = START_KEY THEN {0}
    ELSE UNION {{w + g[<<Topo4[j], Topo4[k]>>] : w \in path_weights(g, j)} :
                    j \in {i \in 1..(k - 1) : <<Topo4[i], Topo4[k]>> \in DOMAIN g}}

\* the index of END in Topo4
end_index == CHOOSE k \in DOMAIN Topo4 : Topo4[k] = END_KEY

\* C28: when END can be reached from START, the search ends without a
\* panic and the score printed for END is the largest total weight of a
\* path from START to END, also when START has incoming edges.
C28_EndScoreIsBestPathWeight ==
    (pcH4 \in {"done", "panic"} /\ path_weights(dag4, end_index) # {}) =>
        /\ pcH4 = "done"
        /\ end_score4 = largest(path_weights(dag4, end_index))
====
